---- MODULE Spec2Model ----
(***************************************************************************)
(* Model of the AppLauncher update pipeline (src/src/main.rs): the helper  *)
(* thread that fetches the patch list, downloads, verifies and applies     *)
(* each patch and persists the install manifest, the unbounded channel it  *)
(* reports through, and the on_tick consumer of the event loop.            *)
(***************************************************************************)
EXTENDS Integers, Sequences, FiniteSets, TLC

\* ------------------------------------------------------------------ bounds
\* Longest patch list the update server returns in the model.
MaxPatches == 2

\* ------------------------------------------------------- program constants
\* AppEntry.patch is a u16.
U16_MOD == 65536
\* total_tasks = patch_list.len() * 5
TASKS_PER_PATCH == 5
\* StatusCode::OK
STATUS_OK == 200
\* process::exit(3) and process::exit(0) of on_tick
EXIT_ERROR == 3
EXIT_LAUNCHED == 0
\* exit status of a Rust process whose main thread panicked (spawn().expect)
EXIT_PANIC == 101
\* status of a Windows process that aborted (a panic inside a guard that runs
\* while the thread is already unwinding): 0xC0000409 as an i32
EXIT_ABORT == -1073740791

ACTIVE == "unnamed-sdvx-clone"
OTHER_APP == "other-app"
Apps == {ACTIVE, OTHER_APP}

\* AppEntry::default(): empty path, patch 0
DefaultEntry == [dir |-> "", patch |-> 0]
\* the directory the OpenSingleDir dialog returns
ChosenDir == "C:/games/usc"
\* InstallManifest::default().games
EmptyGames == [a \in {} |-> DefaultEntry]

\* The names of the temporary artifacts of one loop iteration.
TMP_PATCH == "tmp-file.pwr"
TMP_SIG == "tmp-file.pwr.sig"
TMP_DIR == "butler-workingdir"

\* ---------------------------------------------------------------- messages
\* The string literals the helper thread sends.
MSG_UNWIND == "An error has occured."
MSG_CONTACT == "Contacting Server..."
MSG_NOSERVER == "ERROR: Update server did not respond."
MSG_BADPATCH == "CRC32 Checksum on patch did not match."
MSG_BADSIG == "CRC32 Checksum on signature did not match."
MSG_ALLOK == "allok"
\* The format strings of the notify_finished_* closures.
FMT_DOWNLOAD == "Downloading File ({}/{})..."
FMT_CHECKSUM == "Comparing File Hashes ({}/{})..."
FMT_APPLY == "Applying ({}/{})..."
\* "error", the marker on_tick looks for, as characters
ERROR_MARKER == <<"e","r","r","o","r">>

\* The characters of each literal.
Chars(lit) ==
    CASE lit = MSG_UNWIND ->
        <<"A","n"," ","e","r","r","o","r"," ","h","a","s"," ","o","c","c","u","r","e","d",".">>
      [] lit = MSG_CONTACT ->
        <<"C","o","n","t","a","c","t","i","n","g"," ","S","e","r","v","e","r",".",".",".">>
      [] lit = MSG_NOSERVER ->
        <<"E","R","R","O","R",":"," ","U","p","d","a","t","e"," ","s","e","r","v","e","r"," ","d","i","d"," ","n","o","t"," ","r","e","s","p","o","n","d",".">>
      [] lit = MSG_BADPATCH ->
        <<"C","R","C","3","2"," ","C","h","e","c","k","s","u","m"," ","o","n"," ","p","a","t","c","h"," ","d","i","d"," ","n","o","t"," ","m","a","t","c","h",".">>
      [] lit = MSG_BADSIG ->
        <<"C","R","C","3","2"," ","C","h","e","c","k","s","u","m"," ","o","n"," ","s","i","g","n","a","t","u","r","e"," ","d","i","d"," ","n","o","t"," ","m","a","t","c","h",".">>
      [] lit = MSG_ALLOK ->
        <<"a","l","l","o","k">>

\* The pieces of each format string around its two {} placeholders.
FormatParts(fmt) ==
    CASE fmt = FMT_DOWNLOAD ->
        << <<"D","o","w","n","l","o","a","d","i","n","g"," ","F","i","l","e"," ","(">>,
           <<"/">>,
           <<")",".",".",".">> >>
      [] fmt = FMT_CHECKSUM ->
        << <<"C","o","m","p","a","r","i","n","g"," ","F","i","l","e"," ","H","a","s","h","e","s"," ","(">>,
           <<"/">>,
           <<")",".",".",".">> >>
      [] fmt = FMT_APPLY ->
        << <<"A","p","p","l","y","i","n","g"," ","(">>,
           <<"/">>,
           <<")",".",".",".">> >>

DigitChar(d) == <<"0","1","2","3","4","5","6","7","8","9">>[d + 1]

\* Display of a non-negative integer, as format!("{}", n) prints it.
RECURSIVE Decimal(_)
Decimal(n) == IF n < 10 THEN <<DigitChar(n)>>
              ELSE Decimal(n \div 10) \o <<DigitChar(n % 10)>>

\* format!(fmt, i, total_tasks), as characters
Format(fmt, n, total) ==
    LET parts == FormatParts(fmt) IN
        parts[1] \o Decimal(n) \o parts[2] \o Decimal(total) \o parts[3]

\* str::contains: needle occurs in hay as a contiguous run of characters.
Contains(hay, needle) ==
    \E k \in 0..(Len(hay) - Len(needle)) :
        \A j \in 1..Len(needle) : hay[k + j] = needle[j]

\* An event of the channel: a literal, or a format string with the counter
\* and the total that are formatted into it.
Plain(lit) == [text |-> lit, progress |-> FALSE, i |-> 0, total |-> 0]
Progress(fmt, n, total) == [text |-> fmt, progress |-> TRUE, i |-> n, total |-> total]
\* The String an event is.
Text(m) == IF m.progress THEN Format(m.text, m.i, m.total) ELSE Chars(m.text)

\* ------------------------------------------------------------- payloads
PATCH_BYTES == <<80, 87, 82>>
SIG_BYTES == <<83, 73, 71>>
\* The bodies a download can deliver: the file asked for, or the other one.
Payloads == {PATCH_BYTES, SIG_BYTES}

\* crc32c::crc32c on the payloads of the model (CRC-32C, Castagnoli): the u32
\* as <<high 16 bits, low 16 bits>>, 0xDD020ACD for "PWR" and 0xD99D7AC6 for "SIG".
Crc32c(bytes) ==
    CASE bytes = PATCH_BYTES -> <<56578, 2765>>
      [] bytes = SIG_BYTES -> <<55709, 31430>>
      [] bytes = <<>> -> <<0, 0>>

\* A comparison that lets every checksum pass.
HashMatchesAlways(crc, expected) == TRUE
\* patch_file_crc32c.ne(&patch.hash) is false
HashMatches(crc, expected) == crc = expected

\* patch.id as u16
U16(x) == x % U16_MOD

\* ------------------------------------------------------------ patch lists
\* The ids the update server uses in the model; one does not fit a u16.
PatchIds == {2, 3, 65538}
PatchInfos == [id : PatchIds, hash : {Crc32c(PATCH_BYTES)}, sig_hash : {Crc32c(SIG_BYTES)}]
\* The responses of the server: up to MaxPatches descriptors, in the order
\* they are to be applied, which is the order of their ids.
PatchLists ==
    {l \in UNION {[1..n -> PatchInfos] : n \in 0..MaxPatches} :
        \A k \in 1..(Len(l) - 1) : l[k].id < l[k + 1].id}

\* A total that counts one sub-step per patch too few.
TotalTasksShort(list) == Len(list) * (TASKS_PER_PATCH - 1)
\* let total_tasks = patch_list.len() * 5
TotalTasks(list) == Len(list) * TASKS_PER_PATCH

VARIABLES
    \* ---- startup state (main, lines 99-146)
    proj_dirs,          \* ProjectDirs::from(..) is Some
    disk_manifest,      \* install.manifest: [exists, intact, games]
    manifest,           \* manifest.games in memory
    entry,              \* the active application's AppEntry
    manifest_found,
    entry_for_ui,
    stale_dir,          \* a butler-workingdir left by an earlier, killed run
    \* ---- helper thread
    pc,                 \* position of the helper thread
    patch_list,
    total_tasks,
    i,                  \* progress counter
    idx,                \* position of the for loop in patch_list (1-based)
    guards,             \* the defer! guards of the current iteration, innermost first
    mode,               \* "run", "return" (early return) or "panic" (unwinding)
    files,              \* temporary artifacts on disk
    patch_file,         \* content of tmp-file.pwr
    sig_file,           \* content of tmp-file.pwr.sig
    \* ---- channel
    chan,               \* events sent and not yet received
    sender_alive,       \* send_state not yet dropped
    \* ---- consumer (on_tick)
    update,
    launch,
    err_occurred,
    current_operation,
    proc,               \* "running", "exited", "panicked" or "aborted"
    exit_code,
    launched,           \* the application was spawned
    \* ---- history
    disk0,              \* install.manifest as it was before the run
    emitted,            \* every event sent, in order
    received,           \* every event received, in order
    steps,              \* the sub-steps performed, in order
    writes,             \* how often install.manifest was opened for writing
    remove_failed,      \* a removal of a temporary artifact failed
    status,             \* status code of the catalog response, 0 before it arrives
    butler_failed,      \* catalog position of the first patch butler failed on, 0 if none
    fault               \* what went wrong in the helper thread, "" if nothing

vars == <<proj_dirs, disk_manifest, manifest, entry, manifest_found, entry_for_ui,
          stale_dir,
          pc, patch_list, total_tasks, i, idx, guards, mode, files, patch_file,
          sig_file, chan, sender_alive, update, launch, err_occurred,
          current_operation, proc, exit_code, launched, disk0, emitted,
          received, steps, writes, remove_failed, butler_failed, fault, status>>

startup_vars == <<proj_dirs, manifest_found, entry_for_ui, stale_dir, disk0>>

consumer_vars == <<update, launch, err_occurred, current_operation, proc,
                   exit_code, launched, received>>

\* ----------------------------------------------------------- install.manifest
\* toml::to_string(&manifest): one table per game, with its dir and patch.
ToToml(games) == {<<a, games[a].dir, games[a].patch>> : a \in DOMAIN games}
\* toml::from_slice: the games map the tables decode to.
FromToml(rows) ==
    [a \in {r[1] : r \in rows} |->
        LET r == CHOOSE r \in rows : r[1] = a IN [dir |-> r[2], patch |-> r[3]]]

\* No file at data_local_dir/install.manifest.
NoFile == [exists |-> FALSE, intact |-> TRUE, rows |-> {}]
\* A file holding the serialization of games.
FileOf(games) == [exists |-> TRUE, intact |-> TRUE, rows |-> ToToml(games)]
\* A file that was truncated and not written to the end.
TornFile == [exists |-> TRUE, intact |-> FALSE, rows |-> {}]

\* The manifests a machine can hold at startup: the active application with
\* some patch level or not at all, another application or not.
StartLevels == {0, 1}
StartEntries == [dir : {ChosenDir}, patch : StartLevels]
OtherEntry == [dir |-> "C:/games/other", patch |-> 7]
StartGames ==
    {EmptyGames, [a \in {OTHER_APP} |-> OtherEntry]}
    \cup {[a \in {ACTIVE} |-> e] : e \in StartEntries}
    \cup {[a \in Apps |-> IF a = ACTIVE THEN e ELSE OtherEntry] : e \in StartEntries}
StartFiles == {NoFile} \cup {FileOf(g) : g \in StartGames}

\* A removal that empties the whole map.
RemoveEntryClears(games, name) == [a \in {} |-> DefaultEntry]
\* manifest.games.remove(name)
RemoveEntry(games, name) == [a \in DOMAIN games \ {name} |-> games[a]]
\* An insert that stores the entry with the next patch level.
InsertEntryBumped(games, name, e) ==
    [a \in DOMAIN games \cup {name} |->
        IF a = name THEN [e EXCEPT !.patch = U16(e.patch + 1)] ELSE games[a]]
\* manifest.games.insert(name, e)
InsertEntry(games, name, e) ==
    [a \in DOMAIN games \cup {name} |-> IF a = name THEN e ELSE games[a]]

\* "find user preferences": what main holds after lines 99-146, given whether
\* the project directories resolve and what the manifest file is.
LoadState(pd, file) ==
    IF ~pd THEN
        [manifest |-> EmptyGames, entry |-> DefaultEntry, found |-> FALSE]
    ELSE IF ~file.exists THEN
        [manifest |-> EmptyGames,
         entry |-> [dir |-> ChosenDir, patch |-> 0],
         found |-> FALSE]
    ELSE LET games == FromToml(file.rows) IN
        IF ACTIVE \in DOMAIN games THEN
            [manifest |-> RemoveEntry(games, ACTIVE),
             entry |-> games[ACTIVE],
             found |-> TRUE]
        ELSE
            [manifest |-> games, entry |-> DefaultEntry, found |-> TRUE]

Init ==
    \E pd \in BOOLEAN, file \in StartFiles, stale \in BOOLEAN :
        /\ (~pd => file = NoFile)
        /\ stale_dir = stale
        /\ files = IF stale THEN {TMP_DIR} ELSE {}
        /\ LET st == LoadState(pd, file) IN
            /\ proj_dirs = pd
            /\ disk_manifest = file
            /\ disk0 = file
            /\ manifest = st.manifest
            /\ entry = st.entry
            /\ manifest_found = st.found
            /\ entry_for_ui = st.entry
        /\ pc = "start"
        /\ patch_list = <<>>
        /\ total_tasks = 0
        /\ i = 0
        /\ idx = 0
        /\ guards = <<>>
        /\ mode = "run"
        /\ patch_file = <<>>
        /\ sig_file = <<>>
        /\ chan = <<>>
        /\ sender_alive = TRUE
        /\ update = FALSE
        /\ launch = FALSE
        /\ err_occurred = FALSE
        /\ current_operation = Plain("Waiting For Tasks...")
        /\ proc = "running"
        /\ exit_code = <<>>
        /\ launched = FALSE
        /\ emitted = <<>>
        /\ received = <<>>
        /\ steps = <<>>
        /\ writes = 0
        /\ remove_failed = FALSE
        /\ butler_failed = 0
        /\ fault = ""
        /\ status = 0

\* ------------------------------------------------------------ helper thread
\* A channel that hands out the newest event first.
SendFront(m) == /\ chan' = <<m>> \o chan
                /\ emitted' = Append(emitted, m)
\* send_state.send(m): the channel is unbounded, the receiver lives as long
\* as the process, so a send always succeeds.
Send(m) == /\ chan' = Append(chan, m)
           /\ emitted' = Append(emitted, m)
Send2(m1, m2) == /\ chan' = chan \o <<m1, m2>>
                 /\ emitted' = emitted \o <<m1, m2>>

\* A sub-step of the pipeline, recorded with the catalog position it works on.
Step(op, k) == [op |-> op, pos |-> k]

\* An unwrap()/expect() that fails: the thread starts to unwind.
Panic(why) == /\ mode' = "panic"
              /\ pc' = "unwind"
              /\ fault' = why

\* A loop that walks the list from its end.
PositionReversed(n) == Len(patch_list) + 1 - n
\* for patch in patch_list.iter(): the catalog position of the n-th iteration.
Position(n) == n

\* A scope that registers no guard.
PushGuardNone(gs, g) == gs
\* defer! { .. }: a guard declared later runs earlier.
PushGuard(gs, g) == <<g>> \o gs

\* send_state.send("Contacting Server...")
Start ==
    /\ proc = "running"
    /\ pc = "start"
    /\ Send(Plain(MSG_CONTACT))
    /\ pc' = "fetch"
    /\ UNCHANGED <<startup_vars, status, butler_failed, consumer_vars, disk_manifest, manifest, entry,
                   patch_list, total_tasks, i, idx, guards, mode, files,
                   patch_file, sig_file, sender_alive, steps, writes,
                   remove_failed, fault>>

\* A check that takes every response for a success.
StatusIsOkAlways(code) == TRUE
\* resp.status().ne(&reqwest::StatusCode::OK) is false
StatusIsOk(code) == code = STATUS_OK

\* The statuses the update server answers with in the model.
Statuses == {STATUS_OK, 404, 503}

\* The request for the patch list, the status check and the decoding.
Fetch ==
    /\ proc = "running"
    /\ pc = "fetch"
    /\ \E sent \in BOOLEAN, code \in Statuses, decoded \in BOOLEAN,
          list \in PatchLists :
        IF ~sent THEN
            /\ Panic("request")
            /\ UNCHANGED <<chan, emitted, patch_list, total_tasks, idx, status>>
        ELSE IF ~StatusIsOk(code) THEN
            /\ status' = code
            /\ Send(Plain(MSG_NOSERVER))
            /\ mode' = "return"
            /\ pc' = "unwind"
            /\ fault' = "catalog"
            /\ UNCHANGED <<patch_list, total_tasks, idx>>
        ELSE IF ~decoded THEN
            /\ status' = code
            /\ Panic("decode")
            /\ UNCHANGED <<chan, emitted, patch_list, total_tasks, idx>>
        ELSE
            /\ status' = code
            /\ patch_list' = list
            /\ total_tasks' = TotalTasks(list)
            /\ idx' = 1
            /\ pc' = IF Len(list) = 0 THEN "allok" ELSE "download_patch"
            /\ UNCHANGED <<chan, emitted, mode, fault>>
    /\ UNCHANGED <<startup_vars, butler_failed, consumer_vars, disk_manifest, manifest, entry,
                   i, guards, files, patch_file, sig_file, sender_alive, steps,
                   writes, remove_failed>>

\* A loop body that compares the payload's checksum before it downloads the
\* signature file.
NextSubStepVerifyFirst(p) ==
    CASE p = "download_patch" -> "compare_patch"
      [] p = "compare_patch" -> "download_sig"
      [] p = "download_sig" -> "compare_sig"
      [] p = "compare_sig" -> "apply"
\* The statements of the loop body in the order they are written: both
\* downloads, then both comparisons, then the apply step.
NextSubStep(p) ==
    CASE p = "download_patch" -> "download_sig"
      [] p = "download_sig" -> "compare_patch"
      [] p = "compare_patch" -> "compare_sig"
      [] p = "compare_sig" -> "apply"

\* The descriptor the current iteration works on.
CurrentPatch == patch_list[Position(idx)]

\* notify_finished_download_task, File::create("tmp-file.pwr"), its guard,
\* the GET of patch.url and io::copy into the file.
DownloadPatch ==
    /\ proc = "running"
    /\ pc = "download_patch"
    /\ i' = i + 1
    /\ Send(Progress(FMT_DOWNLOAD, i + 1, total_tasks))
    /\ steps' = Append(steps, Step("download_patch", Position(idx)))
    /\ \E created \in BOOLEAN, copied \in BOOLEAN, body \in Payloads :
        IF ~created THEN
            /\ Panic("create")
            /\ UNCHANGED <<files, guards, patch_file>>
        ELSE
            /\ files' = files \cup {TMP_PATCH}
            /\ guards' = PushGuard(guards, TMP_PATCH)
            /\ IF ~copied THEN
                  /\ patch_file' = <<>>
                  /\ Panic("download")
               ELSE
                  /\ patch_file' = body
                  /\ pc' = NextSubStep("download_patch")
                  /\ UNCHANGED <<mode, fault>>
    /\ UNCHANGED <<startup_vars, status, butler_failed, consumer_vars, disk_manifest, manifest, entry,
                   patch_list, total_tasks, idx, sig_file, sender_alive, writes,
                   remove_failed>>

\* The same for tmp-file.pwr.sig and patch.sig.
DownloadSig ==
    /\ proc = "running"
    /\ pc = "download_sig"
    /\ i' = i + 1
    /\ Send(Progress(FMT_DOWNLOAD, i + 1, total_tasks))
    /\ steps' = Append(steps, Step("download_sig", Position(idx)))
    /\ \E created \in BOOLEAN, copied \in BOOLEAN, body \in Payloads :
        IF ~created THEN
            /\ Panic("create")
            /\ UNCHANGED <<files, guards, sig_file>>
        ELSE
            /\ files' = files \cup {TMP_SIG}
            /\ guards' = PushGuard(guards, TMP_SIG)
            /\ IF ~copied THEN
                  /\ sig_file' = <<>>
                  /\ Panic("download")
               ELSE
                  /\ sig_file' = body
                  /\ pc' = NextSubStep("download_sig")
                  /\ UNCHANGED <<mode, fault>>
    /\ UNCHANGED <<startup_vars, status, butler_failed, consumer_vars, disk_manifest, manifest, entry,
                   patch_list, total_tasks, idx, patch_file, sender_alive,
                   writes, remove_failed>>

\* notify_finished_checksum_task, fs::read("tmp-file.pwr"), crc32c and the
\* comparison with patch.hash; a mismatch is reported and the closure returns.
ComparePatch ==
    /\ proc = "running"
    /\ pc = "compare_patch"
    /\ i' = i + 1
    /\ steps' = Append(steps, Step("verify_patch", Position(idx)))
    /\ \E read \in BOOLEAN :
        IF ~read THEN
            /\ Send(Progress(FMT_CHECKSUM, i + 1, total_tasks))
            /\ Panic("read")
        ELSE IF HashMatches(Crc32c(patch_file), CurrentPatch.hash) THEN
            /\ Send(Progress(FMT_CHECKSUM, i + 1, total_tasks))
            /\ pc' = NextSubStep("compare_patch")
            /\ UNCHANGED <<mode, fault>>
        ELSE
            /\ Send2(Progress(FMT_CHECKSUM, i + 1, total_tasks), Plain(MSG_BADPATCH))
            /\ mode' = "return"
            /\ pc' = "unwind"
            /\ fault' = "patch_hash"
    /\ UNCHANGED <<startup_vars, status, butler_failed, consumer_vars, disk_manifest, manifest, entry,
                   patch_list, total_tasks, idx, guards, files, patch_file,
                   sig_file, sender_alive, writes, remove_failed>>

\* The same for tmp-file.pwr.sig and patch.sig_hash.
CompareSig ==
    /\ proc = "running"
    /\ pc = "compare_sig"
    /\ i' = i + 1
    /\ steps' = Append(steps, Step("verify_sig", Position(idx)))
    /\ \E read \in BOOLEAN :
        IF ~read THEN
            /\ Send(Progress(FMT_CHECKSUM, i + 1, total_tasks))
            /\ Panic("read")
        ELSE IF HashMatches(Crc32c(sig_file), CurrentPatch.sig_hash) THEN
            /\ Send(Progress(FMT_CHECKSUM, i + 1, total_tasks))
            /\ pc' = NextSubStep("compare_sig")
            /\ UNCHANGED <<mode, fault>>
        ELSE
            /\ Send2(Progress(FMT_CHECKSUM, i + 1, total_tasks), Plain(MSG_BADSIG))
            /\ mode' = "return"
            /\ pc' = "unwind"
            /\ fault' = "sig_hash"
    /\ UNCHANGED <<startup_vars, status, butler_failed, consumer_vars, disk_manifest, manifest, entry,
                   patch_list, total_tasks, idx, guards, files, patch_file,
                   sig_file, sender_alive, writes, remove_failed>>

\* notify_finished_applying_task, fs::create_dir("butler-workingdir"), its
\* guard, and the spawn of tools/butler by Command::output(). create_dir
\* fails when the directory is already there.
Apply ==
    /\ proc = "running"
    /\ pc = "apply"
    /\ i' = i + 1
    /\ Send(Progress(FMT_APPLY, i + 1, total_tasks))
    /\ \E created \in BOOLEAN, spawned \in BOOLEAN :
        IF ~created \/ TMP_DIR \in files THEN
            /\ steps' = Append(steps, Step("apply", Position(idx)))
            /\ Panic("create_dir")
            /\ UNCHANGED <<files, guards>>
        ELSE
            /\ files' = files \cup {TMP_DIR}
            /\ guards' = PushGuard(guards, TMP_DIR)
            /\ IF ~spawned THEN
                  /\ steps' = Append(steps, Step("apply", Position(idx)))
                  /\ Panic("spawn")
               ELSE
                  /\ steps' = steps \o <<Step("apply", Position(idx)),
                                         Step("butler_start", Position(idx))>>
                  /\ pc' = "butler_wait"
                  /\ UNCHANGED <<mode, fault>>
    /\ UNCHANGED <<startup_vars, status, butler_failed, consumer_vars, disk_manifest, manifest, entry,
                   patch_list, total_tasks, idx, patch_file, sig_file,
                   sender_alive, writes, remove_failed>>

\* Command::output() returns: the exit status of butler is not looked at, and
\* entry.patch = patch.id as u16 ends the iteration.
ButlerWait ==
    /\ proc = "running"
    /\ pc = "butler_wait"
    /\ \E waited \in BOOLEAN, success \in BOOLEAN :
        IF ~waited THEN
            /\ Panic("wait")
            /\ UNCHANGED <<entry, steps, butler_failed>>
        ELSE
            /\ steps' = Append(steps, Step("butler_end", Position(idx)))
            /\ butler_failed' = IF ~success /\ butler_failed = 0
                                 THEN Position(idx) ELSE butler_failed
            /\ entry' = [entry EXCEPT !.patch = U16(CurrentPatch.id)]
            /\ pc' = "unwind"
            /\ UNCHANGED <<mode, fault>>
    /\ UNCHANGED <<startup_vars, status, consumer_vars, disk_manifest, manifest,
                   patch_list, total_tasks, i, idx, guards, files, patch_file,
                   sig_file, chan, sender_alive, emitted, writes, remove_failed>>

\* The innermost live guard of the iteration runs: fs::remove_file or
\* fs::remove_dir_all, then expect(""). A removal that fails panics; a panic
\* in a guard that runs during unwinding aborts the process.
RunGuard ==
    /\ proc = "running"
    /\ pc = "unwind"
    /\ guards # <<>>
    /\ guards' = Tail(guards)
    /\ \E removed \in BOOLEAN :
        IF removed THEN
            /\ files' = files \ {Head(guards)}
            /\ UNCHANGED <<mode, fault, pc, proc, exit_code, remove_failed>>
        ELSE IF mode = "panic" THEN
            /\ remove_failed' = TRUE
            /\ proc' = "aborted"
            /\ exit_code' = <<EXIT_ABORT>>
            /\ pc' = "aborted"
            /\ UNCHANGED <<files, mode, fault>>
        ELSE
            /\ remove_failed' = TRUE
            /\ mode' = "panic"
            /\ fault' = IF mode = "return" THEN fault ELSE "cleanup"
            /\ UNCHANGED <<files, pc, proc, exit_code>>
    /\ UNCHANGED <<startup_vars, status, butler_failed, update, launch, err_occurred, current_operation,
                   launched, received, disk_manifest, manifest, entry,
                   patch_list, total_tasks, i, idx, patch_file, sig_file, chan,
                   sender_alive, emitted, steps, writes>>

\* The end of a loop iteration whose guards all ran: the next descriptor, or
\* the end of the loop.
EndIteration ==
    /\ proc = "running"
    /\ pc = "unwind"
    /\ guards = <<>>
    /\ mode = "run"
    /\ idx' = idx + 1
    /\ pc' = IF idx + 1 <= Len(patch_list) THEN "download_patch" ELSE "allok"
    /\ UNCHANGED <<startup_vars, status, butler_failed, consumer_vars, disk_manifest, manifest, entry,
                   patch_list, total_tasks, i, guards, mode, files, patch_file,
                   sig_file, chan, sender_alive, emitted, steps, writes,
                   remove_failed, fault>>

\* return; with every guard of the iteration run.
EarlyReturn ==
    /\ proc = "running"
    /\ pc = "unwind"
    /\ guards = <<>>
    /\ mode = "return"
    /\ pc' = "drop"
    /\ UNCHANGED <<startup_vars, status, butler_failed, consumer_vars, disk_manifest, manifest, entry,
                   patch_list, total_tasks, i, idx, guards, mode, files,
                   patch_file, sig_file, chan, sender_alive, emitted, steps,
                   writes, remove_failed, fault>>

\* defer_on_unwind! { send_state.send("An error has occured.") }: the first
\* guard declared, so the last to run when the thread unwinds.
UnwindGuard ==
    /\ proc = "running"
    /\ pc = "unwind"
    /\ guards = <<>>
    /\ mode = "panic"
    /\ Send(Plain(MSG_UNWIND))
    /\ pc' = "drop"
    /\ UNCHANGED <<startup_vars, status, butler_failed, consumer_vars, disk_manifest, manifest, entry,
                   patch_list, total_tasks, i, idx, guards, mode, files,
                   patch_file, sig_file, sender_alive, steps, writes,
                   remove_failed, fault>>

\* send_state.send("allok") and manifest.games.insert(.., entry).
SendAllok ==
    /\ proc = "running"
    /\ pc = "allok"
    /\ Send(Plain(MSG_ALLOK))
    /\ manifest' = InsertEntry(manifest, ACTIVE, entry)
    /\ pc' = "persist"
    /\ UNCHANGED <<startup_vars, status, butler_failed, consumer_vars, disk_manifest, entry,
                   patch_list, total_tasks, i, idx, guards, mode, files,
                   patch_file, sig_file, sender_alive, steps, writes,
                   remove_failed, fault>>

\* "persist manifest to disk": File::create + write_all + sync_all when no
\* manifest was found at startup, fs::write otherwise. Opening the file
\* truncates it; each call can fail and is unwrapped.
Persist ==
    /\ proc = "running"
    /\ pc = "persist"
    /\ IF ~proj_dirs THEN
          /\ pc' = "drop"
          /\ UNCHANGED <<disk_manifest, writes, mode, fault, steps>>
       ELSE
          /\ writes' = writes + 1
          /\ steps' = Append(steps, Step("write_manifest", 0))
          /\ \E opened \in BOOLEAN, written \in BOOLEAN, synced \in BOOLEAN :
              IF ~opened THEN
                  /\ Panic("manifest_create")
                  /\ UNCHANGED disk_manifest
              ELSE IF ~written THEN
                  /\ disk_manifest' = TornFile
                  /\ Panic("manifest_write")
              ELSE IF ~manifest_found /\ ~synced THEN
                  /\ disk_manifest' = FileOf(manifest)
                  /\ Panic("manifest_sync")
              ELSE
                  /\ disk_manifest' = FileOf(manifest)
                  /\ pc' = "drop"
                  /\ UNCHANGED <<mode, fault>>
    /\ UNCHANGED <<startup_vars, status, butler_failed, consumer_vars, manifest, entry, patch_list,
                   total_tasks, i, idx, guards, files, patch_file, sig_file,
                   chan, sender_alive, emitted, remove_failed>>

\* The closure is over (end of body, return, or unwound): its captured
\* send_state is dropped and the channel is disconnected.
DropSender ==
    /\ proc = "running"
    /\ pc = "drop"
    /\ sender_alive' = FALSE
    /\ pc' = CASE mode = "run" -> "done"
               [] mode = "return" -> "returned"
               [] mode = "panic" -> "panicked"
    /\ UNCHANGED <<startup_vars, status, butler_failed, consumer_vars, disk_manifest, manifest, entry,
                   patch_list, total_tasks, i, idx, guards, mode, files,
                   patch_file, sig_file, chan, emitted, steps, writes,
                   remove_failed, fault>>

Worker == \/ Start \/ Fetch \/ DownloadPatch \/ DownloadSig \/ ComparePatch
          \/ CompareSig \/ Apply \/ ButlerWait \/ RunGuard \/ EndIteration
          \/ EarlyReturn \/ UnwindGuard \/ SendAllok \/ Persist \/ DropSender

\* ------------------------------------------------------------------ consumer
\* A receiver that takes an empty queue for a closed channel.
IsDisconnectedWhenEmpty == chan = <<>>
\* A receiver that never notices the disconnect.
IsDisconnectedNever == FALSE
\* recv_state.try_recv() is Err(e) with e.is_disconnected(): nothing is
\* queued and the sender is gone.
IsDisconnected == chan = <<>> /\ ~sender_alive

\* performing_operation.eq("allok")
IsAllok(m) == Text(m) = Chars(MSG_ALLOK)
\* A consumer that looks for the marker in capitals.
IsErrorUppercase(m) == Contains(Text(m), <<"E","R","R","O","R">>)
\* performing_operation.contains("error")
IsError(m) == Contains(Text(m), ERROR_MARKER)

\* A consumer that also takes "allok" for the end of the update.
UpdateFlagOnAllok(got, msg) ==
    update \/ (~got /\ IsDisconnected) \/ (got /\ IsAllok(msg))
\* ui_state.update after the match on try_recv(): set in the Err arm when the
\* error is a disconnect, in no arm of Ok.
UpdateFlag(got, msg) == update \/ (~got /\ IsDisconnected)

\* An error branch without its process::exit(3): it falls through to the
\* sleep and process::exit(0) that follow the if.
FollowOnFallsThrough(err) ==
    \E failed \in BOOLEAN :
        IF failed THEN
            /\ proc' = "panicked"
            /\ exit_code' = <<EXIT_PANIC>>
            /\ UNCHANGED launched
        ELSE
            /\ launched' = ~err
            /\ proc' = "exited"
            /\ exit_code' = <<EXIT_LAUNCHED>>
\* The body of `if launch == false && update == true` after launch = true:
\* the alert and process::exit(3) when an error was seen, else the spawn of
\* usc-game, the sleep and process::exit(0). MessageAlert::show() and spawn()
\* are expect()ed: a failure of either panics the main thread.
FollowOn(err) ==
    \E failed \in BOOLEAN :
        IF failed THEN
            /\ proc' = "panicked"
            /\ exit_code' = <<EXIT_PANIC>>
            /\ UNCHANGED launched
        ELSE IF err THEN
            /\ proc' = "exited"
            /\ exit_code' = <<EXIT_ERROR>>
            /\ UNCHANGED launched
        ELSE
            /\ launched' = TRUE
            /\ proc' = "exited"
            /\ exit_code' = <<EXIT_LAUNCHED>>

\* One call of the on_tick closure (lines 415-468).
Tick ==
    /\ proc = "running"
    /\ LET polls == update = FALSE
           got == polls /\ chan # <<>>
           msg == Head(chan)
           update1 == IF polls THEN UpdateFlag(got, msg) ELSE update
           err1 == err_occurred \/ (got /\ ~IsAllok(msg) /\ IsError(msg))
           op1 == IF ~got THEN current_operation
                  ELSE IF IsAllok(msg)
                       THEN Plain("Launching requested application.")
                  ELSE IF IsError(msg) THEN current_operation
                  ELSE msg
           acts == launch = FALSE /\ update1
       IN
        /\ chan' = IF got THEN Tail(chan) ELSE chan
        /\ received' = IF got THEN Append(received, msg) ELSE received
        /\ update' = update1
        /\ err_occurred' = err1
        /\ current_operation' = op1
        /\ launch' = (launch \/ acts)
        /\ IF ~acts THEN UNCHANGED <<proc, exit_code, launched>>
           ELSE FollowOn(err1)
    /\ UNCHANGED <<startup_vars, status, butler_failed, disk_manifest, manifest, entry, pc, patch_list,
                   total_tasks, i, idx, guards, mode, files, patch_file,
                   sig_file, sender_alive, emitted, steps, writes,
                   remove_failed, fault>>

Next == Worker \/ Tick

Spec == Init /\ [][Next]_vars

\* The helper thread is an OS thread and on_tick runs every 16 ms: each keeps
\* taking steps while it has one to take. Whether a run ends does not depend
\* on what other applications the manifest lists, so the runs are taken from
\* the startup states without one, in a clean working directory.
LiveInit == Init /\ OTHER_APP \notin DOMAIN manifest
                 /\ (manifest_found => entry.patch = 1)
                 /\ ~stale_dir
LiveSpec == LiveInit /\ [][Next]_vars /\ WF_vars(Worker) /\ WF_vars(Tick)

\* ===================================================================== claims
\* The helper thread is over: it finished, returned early, unwound from a
\* panic, or took the process down with it.
Terminated == pc \in {"done", "returned", "panicked", "aborted"}

\* The steps of one kind, in the order they were performed.
StepsOf(ops) == SelectSeq(steps, LAMBDA s : s.op \in ops)
\* The catalog positions butler ran to completion on, in order.
Applied == StepsOf({"butler_end"})
\* The games a manifest file decodes to; none when there is no file.
DiskGames(file) == IF file.exists THEN FromToml(file.rows) ELSE EmptyGames
\* The patch level the entry holds once the first k descriptors are applied.
LevelAfter(k) == IF k = 0 THEN entry_for_ui.patch ELSE U16(patch_list[k].id)
\* The events whose text is m.
Emitted(m) == \E n \in 1..Len(emitted) : emitted[n].text = m

\* C1: once a run over a non-empty patch list has terminated, the patch level
\* of the active application in the manifest file equals the id of the last
\* descriptor whose apply step completed in that run.
C1_PersistedLevelIsLastApplied ==
    (Terminated /\ Len(patch_list) > 0 /\ Applied # <<>> /\ butler_failed = 0) =>
        /\ disk_manifest.exists
        /\ disk_manifest.intact
        /\ ACTIVE \in DOMAIN DiskGames(disk_manifest)
        /\ DiskGames(disk_manifest)[ACTIVE].patch
             = patch_list[Applied[Len(Applied)].pos].id

\* C2: butler runs on a prefix of the catalog in catalog order: the n-th run
\* is on the n-th descriptor, and it starts only when the one before is over.
C2_ApplyInCatalogOrder ==
    LET runs == StepsOf({"butler_start", "butler_end"}) IN
        /\ \A n \in 1..Len(runs) :
              /\ runs[n].pos = (n + 1) \div 2
              /\ runs[n].op = IF n % 2 = 1 THEN "butler_start" ELSE "butler_end"
        /\ (Len(runs) + 1) \div 2 <= Len(patch_list)

\* C2 witness: two descriptors were applied, one after the other.
C2_Witness ==
    /\ Len(Applied) = 2
    /\ pc = "done"

\* A sub-step of kind op was started on the descriptor at position k.
Did(op, k) == \E n \in 1..Len(steps) : steps[n] = Step(op, k)
\* The loop is at one of the catalog's descriptors.
InLoop == idx \in 1..Len(patch_list)
\* The payload downloaded for the current descriptor does not have the CRC32C
\* the descriptor gives.
PatchMismatch ==
    /\ InLoop
    /\ Did("download_patch", Position(idx))
    /\ pc # "download_patch"
    /\ Crc32c(patch_file) # CurrentPatch.hash
\* The same for its signature file.
SigMismatch ==
    /\ InLoop
    /\ Did("download_sig", Position(idx))
    /\ pc \notin {"download_patch", "download_sig"}
    /\ Crc32c(sig_file) # CurrentPatch.sig_hash

\* C3: when the payload or the signature file of a patch does not have the
\* expected CRC32C, butler is not run on that patch, no sub-step of a later
\* descriptor is performed, and the patch level stays that of the last patch
\* applied (in the entry and in the manifest file).
C3_MismatchHalts ==
    (PatchMismatch \/ SigMismatch) =>
        /\ ~Did("butler_start", Position(idx))
        /\ \A n \in 1..Len(steps) : steps[n].pos <= Position(idx)
        /\ entry.patch = LevelAfter(Position(idx) - 1)
        /\ disk_manifest = disk0
        /\ pc \notin {"butler_wait", "allok", "persist", "done"}

\* C3 witness: the second patch's signature file failed the comparison after
\* the first patch was applied, and the closure returned.
C3_Witness ==
    /\ SigMismatch
    /\ ~PatchMismatch
    /\ idx = 2
    /\ Len(Applied) = 1
    /\ pc = "returned"
    /\ Emitted(MSG_BADSIG)

\* Something went wrong in the pipeline: the catalog status, a checksum, a
\* panic of the helper thread, or butler reporting failure.
PipelineError == fault # "" \/ butler_failed # 0

\* C4: every error of the pipeline makes the consumer set its error flag, not
\* launch the application, and end the process with status 3 (stated for the
\* runs in which the consumer performs its follow-on action and exits).
C4_ErrorsReachConsumer ==
    (PipelineError /\ launch /\ proc = "exited") =>
        /\ err_occurred
        /\ ~launched
        /\ exit_code = <<EXIT_ERROR>>

\* C5: when butler reports failure for a patch, the entry's patch level is not
\* set to that patch's id, no later patch is attempted, "allok" is not sent
\* and the manifest file is not written.
C5_ApplyFailureHalts ==
    butler_failed # 0 =>
        /\ entry.patch = LevelAfter(butler_failed - 1)
        /\ \A n \in 1..Len(steps) : steps[n].pos <= butler_failed
        /\ ~Emitted(MSG_ALLOK)
        /\ writes = 0
        /\ disk_manifest = disk0

\* C6: the manifest file is written at most once per run and only after every
\* patch passed all its sub-steps; a run that halts on a failure leaves the
\* file as it was and does not re-insert the active entry.
C6_ManifestWrittenOnlyOnSuccess ==
    /\ writes <= 1
    /\ writes > 0 =>
          /\ butler_failed = 0
          /\ \A k \in 1..Len(patch_list) : Did("butler_end", k)
    /\ pc \in {"returned", "panicked", "aborted"} =>
          /\ disk_manifest = disk0
          /\ ~Emitted(MSG_ALLOK) => ACTIVE \notin DOMAIN manifest

\* The catalog answered OK with an empty patch list.
FetchedEmpty == idx >= 1 /\ patch_list = <<>>
\* A download, verify or apply sub-step was performed.
PatchWorkDone ==
    StepsOf({"download_patch", "download_sig", "verify_patch", "verify_sig",
             "apply", "butler_start", "butler_end"}) # <<>>

\* C7 as stated: after a run on an empty patch list, "allok" was sent, no
\* download, verify or apply step was performed, and the manifest file holds
\* the entries it held before, whatever it held before.
C7_EmptyListLeavesManifest ==
    (FetchedEmpty /\ Terminated) =>
        /\ Emitted(MSG_ALLOK)
        /\ ~PatchWorkDone
        /\ disk_manifest.intact
        /\ DiskGames(disk_manifest) = DiskGames(disk0)

\* C7 as amended: after a run on an empty patch list, "allok" was sent and no
\* download, verify or apply step was performed. If the manifest file held an
\* entry for the active application and is not left truncated by a failed
\* write, it holds the same entries as before. If it held none and the run
\* finished, the entry the run started with (patch level 0) was added to the
\* entries it held before, or nothing was written for want of a data directory.
C7_EmptyListKeepsExistingEntry ==
    (FetchedEmpty /\ Terminated) =>
        /\ Emitted(MSG_ALLOK)
        /\ ~PatchWorkDone
        /\ (ACTIVE \in DOMAIN DiskGames(disk0) /\ disk_manifest.intact) =>
              DiskGames(disk_manifest) = DiskGames(disk0)
        /\ (ACTIVE \notin DOMAIN DiskGames(disk0) /\ pc = "done") =>
              /\ entry.patch = 0
              /\ DiskGames(disk_manifest) =
                    IF proj_dirs
                    THEN InsertEntry(DiskGames(disk0), ACTIVE, entry_for_ui)
                    ELSE DiskGames(disk0)

\* C7 witness: a finished run on an empty list that rewrote a manifest file
\* which held the active application and another one.
C7_Witness ==
    /\ FetchedEmpty
    /\ pc = "done"
    /\ writes = 1
    /\ DOMAIN DiskGames(disk0) = Apps
    /\ DiskGames(disk0)[ACTIVE].patch = 1

\* What a run cannot remove: a staging directory that was there before it.
LeftBefore == IF stale_dir THEN {TMP_DIR} ELSE {}

\* C8 as stated: once a run has terminated, none of the temporary artifacts
\* is on disk.
C8_NoArtifactsRemain == Terminated => files = {}

\* C8 as amended: once a run has terminated, no temporary artifact that the
\* run created is on disk unless the removal of one failed; at the start of
\* every iteration and after the loop nothing of an earlier iteration is left.
C8_ArtifactsRemovedUnlessRemovalFails ==
    /\ (Terminated /\ ~remove_failed) => files = LeftBefore
    /\ pc \in {"download_patch", "allok", "persist", "drop"} /\ ~remove_failed
          => files = LeftBefore

\* C8 witness: the run on the second of two patches was cut short by a
\* checksum mismatch after both files were downloaded, and nothing is left.
C8_Witness ==
    /\ pc = "returned"
    /\ idx = 2
    /\ Did("download_sig", 2)
    /\ Did("butler_end", 1)
    /\ ~remove_failed
    /\ files = {}

\* The progress events sent so far, in order.
ProgressEvents == SelectSeq(emitted, LAMBDA m : m.progress)

\* C9: the n-th progress event carries the counter n out of len * 5, the
\* counter never exceeds len * 5, and when the loop is through the last
\* progress event carries len * 5.
C9_ProgressCounter ==
    /\ Len(ProgressEvents) = i
    /\ \A n \in 1..Len(ProgressEvents) :
          /\ ProgressEvents[n].i = n
          /\ ProgressEvents[n].total = Len(patch_list) * 5
          /\ ProgressEvents[n].i <= ProgressEvents[n].total
    /\ i <= Len(patch_list) * 5
    /\ Emitted(MSG_ALLOK) => i = Len(patch_list) * 5

\* C9 witness: a finished run over two patches, whose last progress event
\* carries 10 out of 10.
C9_Witness ==
    /\ pc = "done"
    /\ Len(patch_list) = 2
    /\ ProgressEvents[Len(ProgressEvents)].i = 10
    /\ ProgressEvents[Len(ProgressEvents)].total = 10

\* C10 as stated: in every run the consumer eventually sets its
\* update-complete flag and performs its follow-on action.
C10_ConsumerAlwaysFinishes == <>(update /\ launch)

\* C10 as amended: every run of the helper thread terminates, and the
\* consumer eventually sets its update-complete flag and performs its
\* follow-on action unless the process aborted, which it does when the
\* removal in a cleanup guard fails while the thread is unwinding.
C10_ConsumerFinishesUnlessAborted ==
    <>(Terminated /\ (proc = "aborted" \/ (update /\ launch)))

\* C10 witness: the helper thread panicked, and the consumer set its flag
\* and acted.
C10_Witness ==
    /\ pc = "panicked"
    /\ update
    /\ launch
    /\ proc = "exited"

\* -------------------------------------------------------------------- C11
\* The step is a tick that received the event m.
Receives(m) == /\ chan # <<>>
               /\ chan' = Tail(chan)
               /\ received' = Append(received, m)
               /\ m = Head(chan)
\* The step is a tick that finds the channel disconnected: nothing queued,
\* the sender dropped, the flag not yet set.
SeesDisconnect == /\ ~update
                  /\ chan = <<>>
                  /\ ~sender_alive
                  /\ received' = received

\* C11 as stated: the tick that receives "allok" sets the update-complete
\* flag, so does a tick that finds the channel disconnected, and no other
\* step sets it.
C11_FlagSetOnAllokOrDisconnect ==
    [][/\ Receives(Plain(MSG_ALLOK)) => update'
       /\ SeesDisconnect => update'
       /\ (~update /\ update') => (Receives(Plain(MSG_ALLOK)) \/ SeesDisconnect)]_vars

\* C11 as amended: a tick that finds the channel disconnected sets the
\* update-complete flag and no other step does; a tick that receives an
\* event, "allok" included, leaves the flag as it is, and the flag is never
\* cleared.
C11_FlagSetOnDisconnectOnly ==
    [][/\ SeesDisconnect => update'
       /\ (~update /\ update') => SeesDisconnect
       /\ received' # received => (update' = update /\ ~update)
       /\ update => update']_vars

\* C11 witness: "allok" was received with the flag still clear, and a later
\* tick, the queue empty and the sender gone, set the flag.
C11_Witness ==
    /\ update
    /\ Len(received) >= 2
    /\ received[Len(received)] = Plain(MSG_ALLOK)
    /\ received = emitted
    /\ pc = "done"

\* -------------------------------------------------------------------- C12
\* The catalog request was answered with a status other than OK.
CatalogRefused == status # 0 /\ status # STATUS_OK

\* C12: when the catalog request returns a status other than OK, the helper
\* thread sends the failure event and returns: the events are "Contacting
\* Server..." and the failure, no download, comparison or apply step is
\* performed, no temporary artifact is created, "allok" is not sent, and the
\* manifest is neither written nor given the active entry back.
C12_CatalogFailureHalts ==
    CatalogRefused =>
        /\ emitted = <<Plain(MSG_CONTACT), Plain(MSG_NOSERVER)>>
        /\ steps = <<>>
        /\ patch_list = <<>>
        /\ i = 0
        /\ files = LeftBefore
        /\ ~Emitted(MSG_ALLOK)
        /\ writes = 0
        /\ disk_manifest = disk0
        /\ ACTIVE \notin DOMAIN manifest
        /\ pc \in {"unwind", "drop", "returned"}
        /\ mode = "return"

\* C12 witness: the server answered 404 and the closure has returned.
C12_Witness ==
    /\ status = 404
    /\ pc = "returned"
    /\ ~sender_alive
    /\ Emitted(MSG_NOSERVER)

\* -------------------------------------------------------------------- C13
\* What was sent is what was received followed by what is still queued.
ReceivedIsPrefix == emitted = received \o chan

\* C13: in every state the events received are a prefix of the events sent,
\* in the same order, the rest being queued in that order; a step receives at
\* most one event and takes none back; and the tick that finds the channel
\* disconnected comes when every event sent has been received.
C13_ReceivedPrefixOfEmitted ==
    /\ []ReceivedIsPrefix
    /\ [][/\ \/ received' = received
             \/ chan # <<>> /\ received' = Append(received, Head(chan))
          /\ (~update /\ update') => (received = emitted /\ received' = emitted')]_vars

\* C13 witness: the consumer found the channel disconnected after a run that
\* sent the events of a whole patch and a failure, all of them received.
C13_Witness ==
    /\ update
    /\ pc = "returned"
    /\ Emitted(MSG_BADSIG)
    /\ Len(received) >= 8
    /\ received = emitted

\* -------------------------------------------------------------------- C14
\* The consumer launched the application and left with status 0.
LaunchedApp == launched /\ ~err_occurred /\ exit_code = <<EXIT_LAUNCHED>>
\* The consumer reported the failure and left with status 3.
ReportedFailure == ~launched /\ err_occurred /\ exit_code = <<EXIT_ERROR>>
\* The alert or the spawn failed and the main thread panicked.
FollowOnPanicked == ~launched /\ proc = "panicked" /\ exit_code = <<EXIT_PANIC>>

\* C14 as stated: once the update-complete flag is true the consumer has
\* either launched the application and exited with status 0 or reported the
\* failure and exited with status 3, one of the two and not both.
C14_ExactlyOneFollowOn ==
    update =>
        /\ launch
        /\ proc = "exited"
        /\ LaunchedApp \/ ReportedFailure
        /\ ~(LaunchedApp /\ ReportedFailure)

\* C14 as amended: the tick that sets the update-complete flag performs the
\* follow-on action and ends the process, so the action is performed once
\* and the channel is not read afterwards; the action is the launch with
\* exit status 0, or the failure report with exit status 3, or, when showing
\* the alert or spawning the application fails, the panic of the main thread.
C14_OneFollowOnOrPanic ==
    /\ [](update <=> launch)
    /\ [](update =>
            /\ proc # "running"
            /\ Len(exit_code) = 1
            /\ \/ LaunchedApp /\ ~ReportedFailure /\ ~FollowOnPanicked
               \/ ReportedFailure /\ ~LaunchedApp /\ ~FollowOnPanicked
               \/ FollowOnPanicked /\ ~LaunchedApp /\ ~ReportedFailure)
    /\ [][update => /\ chan' = chan
                     /\ received' = received
                     /\ launched' = launched
                     /\ exit_code' = exit_code]_vars

\* C14 witness: the consumer reported a failure: flag set, error seen, exit
\* status 3, nothing launched, after the worker panicked.
C14_Witness ==
    /\ update
    /\ ReportedFailure
    /\ received[Len(received)] = Plain(MSG_UNWIND)
    /\ proc = "exited"

\* -------------------------------------------------------------------- C15
\* The sub-steps performed on the descriptor at position k, in order.
StepsAt(k) == SelectSeq(steps, LAMBDA s : s.pos = k /\ s.op # "write_manifest")
\* s is t, or t cut short.
IsPrefix(s, t) == Len(s) <= Len(t) /\ \A n \in 1..Len(s) : s[n] = t[n]
\* The order in which the loop body takes the sub-steps of the patch at k.
BodyOrder(k) ==
    <<Step("download_patch", k), Step("download_sig", k), Step("verify_patch", k),
      Step("verify_sig", k), Step("apply", k), Step("butler_start", k),
      Step("butler_end", k)>>
\* The n-th step is preceded by a step op on the same descriptor.
Preceded(n, op) == \E m \in 1..(n - 1) : steps[m] = Step(op, steps[n].pos)

FailureTexts == {MSG_UNWIND, MSG_NOSERVER, MSG_BADPATCH, MSG_BADSIG}
TerminalEvents == SelectSeq(emitted, LAMBDA m : m.text \in FailureTexts \cup {MSG_ALLOK})

\* C16: at most one terminal event is sent in a run; when "allok" is sent it
\* is the last event and no failure event is sent, and once the run is over
\* the manifest file holds the active entry with the new patch level (stated
\* for the runs that have a data directory to write to).
C16_AtMostOneTerminalEvent ==
    /\ Len(TerminalEvents) <= 1
    /\ Emitted(MSG_ALLOK) =>
          /\ emitted[Len(emitted)] = Plain(MSG_ALLOK)
          /\ \A n \in 1..Len(emitted) : emitted[n].text \notin FailureTexts
          /\ (Terminated /\ proj_dirs) =>
                /\ disk_manifest.exists
                /\ disk_manifest.intact
                /\ ACTIVE \in DOMAIN DiskGames(disk_manifest)
                /\ DiskGames(disk_manifest)[ACTIVE] = entry

\* -------------------------------------------------------------------- C17
\* The helper thread panicked: an unwrap() or expect() failed.
WorkerPanicked == mode = "panic"
\* The last event of a sequence is the unwind guard's.
EndsWithUnwind(evs) == evs # <<>> /\ evs[Len(evs)] = Plain(MSG_UNWIND)

\* C17 as stated: when the helper thread panicked and is over, "An error has
\* occured." was the last event sent before the channel closed, and the
\* consumer, once it stops, has received it last, has the error flag set,
\* has launched nothing and exits with status 3.
C17_PanicAlwaysReported ==
    WorkerPanicked =>
        /\ Terminated => (~sender_alive /\ EndsWithUnwind(emitted))
        /\ proc # "running" =>
              /\ EndsWithUnwind(received)
              /\ err_occurred
              /\ ~launched
              /\ exit_code = <<EXIT_ERROR>>

\* C17 as amended: when the helper thread panicked, then unless the removal
\* in a cleanup guard failed while it was unwinding (which aborts the
\* process), "An error has occured." is sent once, as the last event, before
\* the channel closes; the consumer that then finds the channel disconnected
\* has received it last, has the error flag set and launches nothing, and it
\* exits with status 3 unless showing the alert fails.
C17_PanicReportedUnlessAborted ==
    /\ proc = "aborted" => (WorkerPanicked /\ remove_failed /\ ~update)
    /\ (WorkerPanicked /\ proc # "aborted") =>
        /\ ~sender_alive =>
              /\ EndsWithUnwind(emitted)
              /\ Len(SelectSeq(emitted, LAMBDA m : m.text = MSG_UNWIND)) = 1
        /\ pc = "panicked" => ~sender_alive
        /\ update =>
              /\ EndsWithUnwind(received)
              /\ err_occurred
              /\ ~launched
              /\ ReportedFailure \/ FollowOnPanicked

\* C17 witness: the download of the second patch failed, the guards removed
\* the files, the event was sent, and the consumer left with status 3.
C17_Witness ==
    /\ WorkerPanicked
    /\ fault = "download"
    /\ idx = 2
    /\ pc = "panicked"
    /\ files = {}
    /\ EndsWithUnwind(received)
    /\ exit_code = <<EXIT_ERROR>>

\* -------------------------------------------------------------------- C18
\* The step is the assignment entry.patch = patch.id as u16.
AssignsLevel == pc = "butler_wait" /\ pc' = "unwind" /\ mode' = "run"

\* C18: every assignment to the entry's patch level raises it, and the level
\* it stores is the id of the descriptor just applied; the ids of the model's
\* catalogs are strictly increasing and above every starting level.
C18_LevelNeverDecreases ==
    [][/\ entry'.patch >= entry.patch
       /\ AssignsLevel => /\ entry'.patch > entry.patch
                           /\ entry'.patch = CurrentPatch.id]_vars

\* -------------------------------------------------------------------- C19
\* The consumer performed its follow-on action: the launch, the report, or
\* the panic of the main thread in one of them.
ConsumerActed == launch \/ launched \/ proc \in {"exited", "panicked"}

\* C19: the consumer acts only when the helper thread is over and its sender
\* dropped, with nothing queued; no cleanup guard is still to run then; and
\* when the run was a success the manifest write is complete: the file holds
\* the manifest with the active entry (when there is a data directory).
C19_ActsAfterWorkerDone ==
    ConsumerActed =>
        /\ pc \in {"done", "returned", "panicked"}
        /\ ~sender_alive
        /\ chan = <<>>
        /\ guards = <<>>
        /\ ~remove_failed => files = LeftBefore
        /\ launched => pc \in {"done", "returned"}
        /\ pc = "done" =>
              /\ writes = IF proj_dirs THEN 1 ELSE 0
              /\ ACTIVE \in DOMAIN manifest
              /\ manifest[ACTIVE] = entry
              /\ proj_dirs => disk_manifest = FileOf(manifest)

\* C19 witness: the application was launched after a run over two patches
\* whose manifest write had completed.
C19_Witness ==
    /\ launched
    /\ pc = "done"
    /\ Len(patch_list) = 2
    /\ writes = 1
    /\ disk_manifest = FileOf(manifest)
    /\ files = {}

\* -------------------------------------------------------------------- C20
\* The tables of a manifest file that carry the name a.
RowsOf(file, a) == {r \in file.rows : r[1] = a}

\* C20: after a run that finished and had a data directory to write to, the
\* manifest file holds every other application's entry as it was loaded, the
\* active application's entry with the directory it was loaded or chosen
\* with, no entry besides these, and one table per application name.
C20_OnlyActiveEntryChanges ==
    (pc = "done" /\ proj_dirs) =>
        LET before == DiskGames(disk0)
            after == DiskGames(disk_manifest) IN
        /\ disk_manifest.exists
        /\ disk_manifest.intact
        /\ DOMAIN after = DOMAIN before \cup {ACTIVE}
        /\ \A a \in DOMAIN before \ {ACTIVE} : after[a] = before[a]
        /\ after[ACTIVE].dir = entry_for_ui.dir
        /\ ACTIVE \in DOMAIN before => after[ACTIVE].dir = before[ACTIVE].dir
        /\ after[ACTIVE].patch = entry.patch
        /\ \A a \in DOMAIN after : Cardinality(RowsOf(disk_manifest, a)) = 1

\* C20 witness: a finished run raised the active application's level from 1
\* to 3 in a manifest that also lists another application.
C20_Witness ==
    /\ pc = "done"
    /\ proj_dirs
    /\ DOMAIN DiskGames(disk0) = Apps
    /\ DiskGames(disk0)[ACTIVE].patch = 1
    /\ DiskGames(disk_manifest)[ACTIVE].patch = 3
    /\ DiskGames(disk_manifest)[OTHER_APP] = OtherEntry

====
